---- MODULE Spec2Model ----
(***************************************************************************)
(* Order matching of the thesis-betting app (src/app.py).                  *)
(*                                                                         *)
(* Every browser session runs the script in its own thread against the     *)
(* shared MongoDB collections orders_col and trades_col.  A single         *)
(* collection operation (find_one, insert_one, update_one, delete_one) is  *)
(* atomic; nothing else is: the script takes no lock and opens no          *)
(* transaction.  Each action below is therefore one collection operation   *)
(* of one session together with the local computation that follows it.     *)
(***************************************************************************)
EXTENDS Integers, Sequences, FiniteSets, TLC

\* ------------------------------------------------------------------ bounds
\* Orders inserted over a whole behaviour.
MaxOrders == 3
\* Orders inserted over a behaviour of two racing sessions.
MaxRaceOrders == 2

\* Orders inserted over a behaviour of two sessions on two markets.
MaxMarketOrders == 3

\* ------------------------------------------------------- inputs and domains
Sessions == {"s1", "s2"}
\* USER_CREDENTIALS: one ordinary identity and the exempt one of line 41.
Users == {"Alice", "Charlie"}
Markets == {"m1", "m2"}
Sides == {"buy", "sell"}
\* What a user may type into the two number inputs.
PriceInputs == {-1, 0, 1, 2, 101}
VolumeInputs == {0, 1, 2, 11}

\* Limits of the number inputs (lines 351-352).
price_min_value == 0
price_max_value == 100
volume_min_value == 1
volume_max_value == 10

VARIABLES
    orders,          \* orders_col: the set of resident order documents
    trades,          \* trades_col: the ledger, in insertion order
    logged_in,       \* st.session_state['logged_in'], per session
    username,        \* st.session_state['username'], per session
    pc,              \* position of each session's script run
    selected_market, \* market of the running submission, per session
    highest_buy,     \* local highest_buy of the run (a snapshot document)
    lowest_sell,     \* local lowest_sell of the run (a snapshot document)
    next_id,         \* number of orders created so far (uuid4 / utcnow)
    \* History variables: they record what happened and steer nothing.
    submitted,         \* every order document as it was inserted
    reduced,           \* per side, the volume the write-backs of trades took
    iterations,        \* loop rounds of the running match_orders that went on
    resident_at_start, \* orders of the market when match_orders was called
    volume_at_top,     \* volume of the market when the current round began
    prevented,         \* pairings the running match_orders has refused
    calls              \* calls of match_orders made by the running script

session == <<logged_in, username>>
locals == <<selected_market, highest_buy, lowest_sell>>
call_history ==
    <<iterations, resident_at_start, volume_at_top, prevented, calls>>
history == <<submitted, reduced, call_history>>

vars == <<orders, trades, session, pc, locals, next_id, history>>

\* find_one returned None / the list was empty.
NoOrder == [order_id |-> 0, market_id |-> "", user_id |-> "", type |-> "",
            price |-> 0, volume |-> 0, timestamp |-> 0]

\* ---------------------------------------------------------------- queries
\* Variant whose filter leaves the market out: {"type": "buy"}.
BuyOrdersOfAnyMarket(m) == {o \in orders : o.type = "buy"}

BuyOrders(m) == {o \in orders : o.market_id = m /\ o.type = "buy"}
SellOrders(m) == {o \in orders : o.market_id = m /\ o.type = "sell"}

\* Variant sorting by price alone, sort=[("price", -1)]: ties come in no
\* defined order.
HighestBuysByPriceOnly(m) ==
    {o \in BuyOrders(m) : \A p \in BuyOrders(m) : o.price >= p.price}

\* find_one(..., sort=[("price", -1), ("timestamp", 1)]): the candidates.
HighestBuys(m) ==
    {o \in BuyOrders(m) : \A p \in BuyOrders(m) :
        \/ o.price > p.price
        \/ (o.price = p.price /\ o.timestamp <= p.timestamp)}

\* Variant sorting by price alone, sort=[("price", 1)]: ties come in no
\* defined order.
LowestSellsByPriceOnly(m) ==
    {o \in SellOrders(m) : \A p \in SellOrders(m) : o.price <= p.price}

\* find_one(..., sort=[("price", 1), ("timestamp", 1)]): the candidates.
LowestSells(m) ==
    {o \in SellOrders(m) : \A p \in SellOrders(m) :
        \/ o.price < p.price
        \/ (o.price = p.price /\ o.timestamp <= p.timestamp)}

\* find(...).sort("price", -1)[0]: ties in price come in no defined order.
FirstBuys(m) ==
    {o \in BuyOrders(m) : \A p \in BuyOrders(m) : o.price >= p.price}
\* find(...).sort("price", 1)[0].
FirstSells(m) ==
    {o \in SellOrders(m) : \A p \in SellOrders(m) : o.price <= p.price}

FoundOrNone(candidates) == IF candidates = {} THEN {NoOrder} ELSE candidates

\* ------------------------------------------------------- local computation
Min(a, b) == IF a <= b THEN a ELSE b

\* Variant with the comparison turned round: the pair trades when the bid
\* is at or below the ask.
CrossesReversed(b, s) == b.price <= s.price

\* highest_buy['price'] >= lowest_sell['price']
Crosses(b, s) == b.price >= s.price

\* Variant without the self-trade test: any crossing pair is traded.
SelfTradeNeverPrevented(buyer_id, seller_id) == FALSE

\* buyer_id == seller_id and buyer_id != "Charlie"
SelfTradePrevented(buyer_id, seller_id) ==
    buyer_id = seller_id /\ buyer_id # "Charlie"

\* trade_volume = min(highest_buy['volume'], lowest_sell['volume'])
TradeVolume(b, s) == Min(b.volume, s.volume)

\* Variant pricing at the bid: trade_price = highest_buy['price'].
TradePriceOfBid(b, s) == b.price

\* trade_price = lowest_sell['price']
TradePrice(b, s) == s.price

\* The trade document (trade_id is its place in the ledger).
Trade(m, b, s) ==
    [market_id |-> m,
     buy_order_id |-> b.order_id,
     sell_order_id |-> s.order_id,
     buy_id |-> b.user_id,
     sell_id |-> s.user_id,
     price |-> TradePrice(b, s),
     volume |-> TradeVolume(b, s)]

\* ------------------------------------------------- collection operations
\* orders_col.delete_one({"order_id": id})
DeleteOne(col, id) == {o \in col : o.order_id # id}

\* Variant whose filter matches every order: update_many({}, {"$set": ...}).
SetVolumeOfAll(col, id, v) == {[o EXCEPT !.volume = v] : o \in col}

\* orders_col.update_one({"order_id": id}, {"$set": {"volume": v}})
SetVolume(col, id, v) ==
    {IF o.order_id = id THEN [o EXCEPT !.volume = v] ELSE o : o \in col}

\* Variant with upsert=True: an order that is not found is created.
IncVolumeUpsert(col, id, d) ==
    IF \E o \in col : o.order_id = id
    THEN {IF o.order_id = id THEN [o EXCEPT !.volume = o.volume + d] ELSE o :
             o \in col}
    ELSE col \cup {[NoOrder EXCEPT !.order_id = id, !.volume = d]}

\* orders_col.update_one({"order_id": id}, {"$inc": {"volume": d}})
IncVolume(col, id, d) ==
    {IF o.order_id = id THEN [o EXCEPT !.volume = o.volume + d] ELSE o :
        o \in col}

\* Variant that deletes the order whatever volume remains of it.
RemoveWhateverRemains(col, snap, tv) == DeleteOne(col, snap.order_id)

\* Lines 67-74 / 77-84: write back the snapshot's remaining volume.
ReduceOrRemove(col, snap, tv) ==
    IF snap.volume - tv > 0
    THEN SetVolume(col, snap.order_id, snap.volume - tv)
    ELSE DeleteOne(col, snap.order_id)

\* Volume of order id in collection col, 0 when it is not resident.
VolumeOf(col, id) ==
    IF \E o \in col : o.order_id = id
    THEN (CHOOSE o \in col : o.order_id = id).volume
    ELSE 0

\* -------------------------------------------------------- book measures
OrdersOf(m) == {o \in orders : o.market_id = m}

RECURSIVE SumVolume(_)
SumVolume(S) ==
    IF S = {} THEN 0
    ELSE LET o == CHOOSE x \in S : TRUE IN o.volume + SumVolume(S \ {o})

\* ------------------------------------------------------------------- init
Init ==
    /\ orders = {}
    /\ trades = <<>>
    /\ logged_in = [s \in Sessions |-> FALSE]
    /\ username = [s \in Sessions |-> ""]
    /\ pc = [s \in Sessions |-> "idle"]
    /\ selected_market = [s \in Sessions |-> "m1"]
    /\ highest_buy = [s \in Sessions |-> NoOrder]
    /\ lowest_sell = [s \in Sessions |-> NoOrder]
    /\ next_id = 0
    /\ submitted = {}
    /\ reduced = [t \in Sides |-> 0]
    /\ iterations = [s \in Sessions |-> 0]
    /\ resident_at_start = [s \in Sessions |-> 0]
    /\ volume_at_top = [s \in Sessions |-> 0]
    /\ prevented = [s \in Sessions |-> {}]
    /\ calls = [s \in Sessions |-> 0]

\* ---------------------------------------------------------------- helpers
Goto(s, label) == pc' = [pc EXCEPT ![s] = label]

\* The script run of session s ends: its locals are dead.
Finish(s) ==
    /\ Goto(s, "idle")
    /\ selected_market' = [selected_market EXCEPT ![s] = "m1"]
    /\ highest_buy' = [highest_buy EXCEPT ![s] = NoOrder]
    /\ lowest_sell' = [lowest_sell EXCEPT ![s] = NoOrder]
    /\ iterations' = [iterations EXCEPT ![s] = 0]
    /\ resident_at_start' = [resident_at_start EXCEPT ![s] = 0]
    /\ volume_at_top' = [volume_at_top EXCEPT ![s] = 0]
    /\ prevented' = [prevented EXCEPT ![s] = {}]
    /\ calls' = [calls EXCEPT ![s] = 0]

\* Variant of a loop that stops after one round: match_orders returns.
NextRoundStops(s) ==
    /\ Goto(s, "s_buys")
    /\ iterations' = [iterations EXCEPT ![s] = @ + 1]
    /\ volume_at_top' =
          [volume_at_top EXCEPT
              ![s] = SumVolume({o \in orders' : o.market_id = selected_market[s]})]
    /\ UNCHANGED <<resident_at_start, prevented, calls>>

\* A round of the loop of match_orders ends and the next one begins.
NextRound(s) ==
    /\ Goto(s, "m_buy")
    /\ iterations' = [iterations EXCEPT ![s] = @ + 1]
    /\ volume_at_top' =
          [volume_at_top EXCEPT
              ![s] = SumVolume({o \in orders' : o.market_id = selected_market[s]})]
    /\ UNCHANGED <<resident_at_start, prevented, calls>>

\* A write-back of a trade took this much volume from order id.
Took(side, id) ==
    reduced' = [reduced EXCEPT
                   ![side] = @ + VolumeOf(orders, id) - VolumeOf(orders', id)]

\* Variant of line 350, a number input without max_value.
NumberInputTakesAbove(v, lo, hi) == lo <= v

\* st.number_input(min_value, max_value): a value outside the limits is
\* not taken by the widget and never reaches the script.
NumberInputTakes(v, lo, hi) == lo <= v /\ v <= hi

\* The st.error branch the handler takes (lines 356-363), "" if none.
ValidationError(is_logged_in, price, volume) ==
    IF ~is_logged_in THEN "Must be logged in to trade."
    ELSE IF price <= 0 \/ volume <= 0
    THEN "Price and Volume must be greater than 0."
    ELSE IF volume > 10 THEN "Maximum volume per trade is 10."
    ELSE ""

\* Lines 351-364: does the submission go through?  It does not when a
\* number input does not take the value or the handler answers st.error.
Refused(is_logged_in, price, volume) ==
    \/ ~NumberInputTakes(price, price_min_value, price_max_value)
    \/ ~NumberInputTakes(volume, volume_min_value, volume_max_value)
    \/ ValidationError(is_logged_in, price, volume) # ""

\* Lines 365-373: the order document.
NewOrder(s, m, t, price, volume) ==
    [order_id |-> next_id + 1,
     market_id |-> m,
     user_id |-> username[s],
     type |-> t,
     price |-> price,
     volume |-> volume,
     timestamp |-> next_id + 1]

\* ------------------------------------------------------ session actions
\* The session is between two script runs ("rejected": the last run ended
\* in a refused submission, whose st.error is on display).
Idle(s) == pc[s] \in {"idle", "rejected"}

\* login(): the form was submitted with valid credentials of user u.
Login(s, u) ==
    /\ Idle(s)
    /\ ~logged_in[s]
    /\ logged_in' = [logged_in EXCEPT ![s] = TRUE]
    /\ username' = [username EXCEPT ![s] = u]
    /\ Goto(s, "idle")
    /\ UNCHANGED <<orders, trades, locals, next_id, history>>

\* logout()
Logout(s) ==
    /\ Idle(s)
    /\ logged_in[s]
    /\ logged_in' = [logged_in EXCEPT ![s] = FALSE]
    /\ username' = [username EXCEPT ![s] = ""]
    /\ Goto(s, "idle")
    /\ UNCHANGED <<orders, trades, locals, next_id, history>>

\* The inputs with which session s can click "Submit Order".
SubmitInputs == PriceInputs \X VolumeInputs
RefusedInputs(s) == {i \in SubmitInputs : Refused(logged_in[s], i[1], i[2])}

\* "Submit Order" is clicked and the submission is refused.
RejectSubmit(s) ==
    /\ Idle(s)
    /\ RefusedInputs(s) # {}
    /\ Goto(s, "rejected")
    /\ UNCHANGED <<orders, trades, session, locals, next_id, history>>

\* Lines 355-380: "Submit Order" is clicked, the submission goes through,
\* orders_col.insert_one(order) stores the order, match_orders is called.
SubmitOrder(s, m, t, price, volume) ==
    /\ Idle(s)
    /\ ~Refused(logged_in[s], price, volume)
    /\ orders' = orders \cup {NewOrder(s, m, t, price, volume)}
    /\ next_id' = next_id + 1
    /\ Goto(s, "m_buy")
    /\ selected_market' = [selected_market EXCEPT ![s] = m]
    /\ submitted' = submitted \cup {NewOrder(s, m, t, price, volume)}
    /\ iterations' = [iterations EXCEPT ![s] = 0]
    /\ resident_at_start' =
          [resident_at_start EXCEPT
              ![s] = Cardinality({o \in orders' : o.market_id = m})]
    /\ volume_at_top' =
          [volume_at_top EXCEPT
              ![s] = SumVolume({o \in orders' : o.market_id = m})]
    /\ prevented' = [prevented EXCEPT ![s] = {}]
    /\ calls' = [calls EXCEPT ![s] = 1]
    /\ UNCHANGED <<trades, session, highest_buy, lowest_sell, reduced>>

\* Line 375 raises: nothing is stored and the handler reports the failure.
SubmitFails(s) ==
    /\ Idle(s)
    /\ RefusedInputs(s) # SubmitInputs
    /\ Goto(s, "idle")
    /\ UNCHANGED <<orders, trades, session, locals, next_id, history>>

\* ------------------------------------------------------- match_orders
\* Lines 20-23: find_one of the highest buy order.
MatchFindBuy(s) ==
    /\ pc[s] = "m_buy"
    /\ \E b \in FoundOrNone(HighestBuys(selected_market[s])) :
          highest_buy' = [highest_buy EXCEPT ![s] = b]
    /\ Goto(s, "m_sell")
    /\ UNCHANGED <<orders, trades, session, selected_market, lowest_sell,
                   next_id, history>>

\* Where the loop goes once both orders are read (lines 32-46, 88-90).
AfterRead(b, s) ==
    IF b = NoOrder \/ s = NoOrder THEN "s_buys"
    ELSE IF ~Crosses(b, s) THEN "s_buys"
    ELSE IF SelfTradePrevented(b.user_id, s.user_id) THEN "m_selfdel"
    ELSE "m_trade"

\* Lines 26-29: find_one of the lowest sell order, then the decision.
MatchFindSell(s) ==
    /\ pc[s] = "m_sell"
    /\ \E a \in FoundOrNone(LowestSells(selected_market[s])) :
          /\ Goto(s, AfterRead(highest_buy[s], a))
          /\ IF AfterRead(highest_buy[s], a) = "s_buys"
             THEN \* match_orders returns: its locals are gone
                  /\ highest_buy' = [highest_buy EXCEPT ![s] = NoOrder]
                  /\ lowest_sell' = [lowest_sell EXCEPT ![s] = NoOrder]
             ELSE /\ lowest_sell' = [lowest_sell EXCEPT ![s] = a]
                  /\ UNCHANGED highest_buy
          /\ prevented' =
                IF AfterRead(highest_buy[s], a) = "m_selfdel"
                THEN [prevented EXCEPT
                         ![s] = @ \cup {<<highest_buy[s].order_id, a.order_id>>}]
                ELSE prevented
    /\ UNCHANGED <<orders, trades, session, selected_market, next_id,
                   submitted, reduced, iterations, resident_at_start,
                   volume_at_top, calls>>

\* Variant resolving a prevented self-trade by deleting the sell order.
MatchSelfTradeDeleteSell(s) ==
    /\ pc[s] = "m_selfdel"
    /\ orders' = DeleteOne(orders, lowest_sell[s].order_id)
    /\ NextRound(s)
    /\ UNCHANGED <<trades, session, locals, next_id, submitted, reduced>>

\* Variant that only skips a prevented self-trade: nothing is deleted.
MatchSelfTradeSkip(s) ==
    /\ pc[s] = "m_selfdel"
    /\ orders' = orders
    /\ NextRound(s)
    /\ UNCHANGED <<trades, session, locals, next_id, submitted, reduced>>

\* Lines 41-46: the buy order of a prevented self-trade is deleted.
MatchSelfTradeDelete(s) ==
    /\ pc[s] = "m_selfdel"
    /\ orders' = DeleteOne(orders, highest_buy[s].order_id)
    /\ NextRound(s)
    /\ UNCHANGED <<trades, session, locals, next_id, submitted, reduced>>

\* Variant that writes the trade over the ledger instead of adding to it.
MatchReplaceTrade(s) ==
    /\ pc[s] = "m_trade"
    /\ trades' = <<Trade(selected_market[s], highest_buy[s], lowest_sell[s])>>
    /\ Goto(s, "m_updbuy")
    /\ UNCHANGED <<orders, session, locals, next_id, history>>

\* Lines 49-64: trades_col.insert_one(trade).
MatchInsertTrade(s) ==
    /\ pc[s] = "m_trade"
    /\ trades' = Append(trades, Trade(selected_market[s], highest_buy[s],
                                       lowest_sell[s]))
    /\ Goto(s, "m_updbuy")
    /\ UNCHANGED <<orders, session, locals, next_id, history>>

\* Lines 67-74: the buy order is updated or deleted.
MatchUpdateBuy(s) ==
    /\ pc[s] = "m_updbuy"
    /\ orders' = ReduceOrRemove(orders, highest_buy[s],
                                TradeVolume(highest_buy[s], lowest_sell[s]))
    /\ Took("buy", highest_buy[s].order_id)
    /\ Goto(s, "m_updsell")
    /\ UNCHANGED <<trades, session, locals, next_id, submitted, call_history>>

\* Lines 77-86: the sell order is updated or deleted; the loop goes round.
MatchUpdateSell(s) ==
    /\ pc[s] = "m_updsell"
    /\ orders' = ReduceOrRemove(orders, lowest_sell[s],
                                TradeVolume(highest_buy[s], lowest_sell[s]))
    /\ Took("sell", lowest_sell[s].order_id)
    /\ NextRound(s)
    /\ UNCHANGED <<trades, session, locals, next_id, submitted>>

\* match_orders(selected_market) is called once more, right after it has
\* returned: the second invocation of the function on the book it left.
MatchAgain(s) ==
    /\ pc[s] = "s_buys"
    /\ calls[s] = 1
    /\ Goto(s, "m_buy")
    /\ calls' = [calls EXCEPT ![s] = 2]
    /\ iterations' = [iterations EXCEPT ![s] = 0]
    /\ resident_at_start' =
          [resident_at_start EXCEPT
              ![s] = Cardinality(OrdersOf(selected_market[s]))]
    /\ UNCHANGED <<orders, trades, session, locals, next_id, submitted,
                   reduced, volume_at_top, prevented>>

\* ------------------------------- the single pass after match_orders
\* Line 384: the buy orders, best price first.
PassFetchBuys(s) ==
    /\ pc[s] = "s_buys"
    /\ \E b \in FoundOrNone(FirstBuys(selected_market[s])) :
          highest_buy' = [highest_buy EXCEPT ![s] = b]
    /\ Goto(s, "s_sells")
    /\ UNCHANGED <<orders, trades, session, selected_market, lowest_sell,
                   next_id, history>>

\* Lines 388-401: does the pass trade the pair it read?
PassTrades(b, s) ==
    /\ b # NoOrder
    /\ s # NoOrder
    /\ Crosses(b, s)
    /\ ~SelfTradePrevented(b.user_id, s.user_id)

\* Line 385: the sell orders, best price first, then the decision.
PassFetchSells(s) ==
    /\ pc[s] = "s_sells"
    /\ \E a \in FoundOrNone(FirstSells(selected_market[s])) :
          IF PassTrades(highest_buy[s], a)
          THEN /\ lowest_sell' = [lowest_sell EXCEPT ![s] = a]
               /\ Goto(s, "s_trade")
               /\ UNCHANGED <<selected_market, highest_buy, call_history>>
          ELSE Finish(s)
    /\ UNCHANGED <<orders, trades, session, next_id, submitted, reduced>>

\* Lines 400-415: trades_col.insert_one(trade).
PassInsertTrade(s) ==
    /\ pc[s] = "s_trade"
    /\ trades' = Append(trades, Trade(selected_market[s], highest_buy[s],
                                       lowest_sell[s]))
    /\ Goto(s, "s_incbuy")
    /\ UNCHANGED <<orders, session, locals, next_id, history>>

\* Lines 418-421: $inc of the buy order.
PassIncBuy(s) ==
    /\ pc[s] = "s_incbuy"
    /\ orders' = IncVolume(orders, highest_buy[s].order_id,
                           0 - TradeVolume(highest_buy[s], lowest_sell[s]))
    /\ Took("buy", highest_buy[s].order_id)
    /\ Goto(s, "s_incsell")
    /\ UNCHANGED <<trades, session, locals, next_id, submitted, call_history>>

\* highest_buy['volume'] - trade_volume <= 0 (lines 428, 430)
Exhausted(snap, tv) == snap.volume - tv <= 0

\* Lines 422-428: $inc of the sell order, then which delete comes next.
PassIncSell(s) ==
    /\ pc[s] = "s_incsell"
    /\ orders' = IncVolume(orders, lowest_sell[s].order_id,
                           0 - TradeVolume(highest_buy[s], lowest_sell[s]))
    /\ Took("sell", lowest_sell[s].order_id)
    /\ IF Exhausted(highest_buy[s], TradeVolume(highest_buy[s], lowest_sell[s]))
       THEN Goto(s, "s_delbuy")
       ELSE Goto(s, "s_delsell")
    /\ UNCHANGED <<trades, session, locals, next_id, submitted, call_history>>

\* Lines 428-430: the exhausted buy order is deleted.
PassDeleteBuy(s) ==
    /\ pc[s] = "s_delbuy"
    /\ orders' = DeleteOne(orders, highest_buy[s].order_id)
    /\ Took("buy", highest_buy[s].order_id)
    /\ IF Exhausted(lowest_sell[s], TradeVolume(highest_buy[s], lowest_sell[s]))
       THEN /\ Goto(s, "s_delsell")
            /\ UNCHANGED <<locals, call_history>>
       ELSE Finish(s)
    /\ UNCHANGED <<trades, session, next_id, submitted>>

\* Lines 430-433: the exhausted sell order is deleted; the run ends.
PassDeleteSell(s) ==
    /\ pc[s] = "s_delsell"
    /\ orders' = DeleteOne(orders, lowest_sell[s].order_id)
    /\ Took("sell", lowest_sell[s].order_id)
    /\ Finish(s)
    /\ UNCHANGED <<trades, session, next_id, submitted>>

\* ------------------------------------------------------------ failures
\* The positions at which the run is about to call the database.
AtDatabaseCall(s) ==
    pc[s] \in {"m_buy", "m_sell", "m_selfdel", "m_trade", "m_updbuy",
               "m_updsell", "s_buys", "s_sells", "s_trade", "s_incbuy",
               "s_incsell", "s_delbuy", "s_delsell"}

\* Lines 374, 438-439: the call raises; the handler reports it and ends.
PersistenceFails(s) ==
    /\ AtDatabaseCall(s)
    /\ Finish(s)
    /\ UNCHANGED <<orders, trades, session, next_id, submitted, reduced>>

\* ------------------------------------------------------- specifications
\* One session: its submissions run one at a time, the database answers.
\* The pass after match_orders is followed up to its decision: in this
\* specification it never decides to trade (PassNeverTrades below).
Next ==
    \/ \E u \in Users : Login("s1", u)
    \/ Logout("s1")
    \/ RejectSubmit("s1")
    \/ \E t \in Sides, p \in PriceInputs, v \in VolumeInputs :
          next_id < MaxOrders /\ SubmitOrder("s1", "m1", t, p, v)
    \/ MatchFindBuy("s1")
    \/ MatchFindSell("s1")
    \/ MatchSelfTradeDelete("s1")
    \/ MatchInsertTrade("s1")
    \/ MatchUpdateBuy("s1")
    \/ MatchUpdateSell("s1")
    \/ PassFetchBuys("s1")
    \/ PassFetchSells("s1")

Spec == Init /\ [][Next]_vars

\* The same session when any call of the database may raise.
NextFail ==
    \/ Next
    \/ SubmitFails("s1")
    \/ PersistenceFails("s1")

SpecFail == Init /\ [][NextFail]_vars

\* The same session when match_orders is invoked a second time on the book
\* its first invocation left.
NextRematch ==
    \/ Next
    \/ MatchAgain("s1")

SpecRematch == Init /\ [][NextRematch]_vars

\* Two sessions, logged in, submit to the same market at the same time.
\* Both run the same script, so Alice in s1 with Charlie in s2 is the mirror
\* image of Charlie in s1 with Alice in s2 and is not started from.
InitRace ==
    /\ orders = {}
    /\ trades = <<>>
    /\ logged_in = [s \in Sessions |-> TRUE]
    /\ username \in {u \in [Sessions -> Users] :
                        u["s1"] = "Charlie" \/ u["s2"] = "Alice"}
    /\ pc = [s \in Sessions |-> "idle"]
    /\ selected_market = [s \in Sessions |-> "m1"]
    /\ highest_buy = [s \in Sessions |-> NoOrder]
    /\ lowest_sell = [s \in Sessions |-> NoOrder]
    /\ next_id = 0
    /\ submitted = {}
    /\ reduced = [t \in Sides |-> 0]
    /\ iterations = [s \in Sessions |-> 0]
    /\ resident_at_start = [s \in Sessions |-> 0]
    /\ volume_at_top = [s \in Sessions |-> 0]
    /\ prevented = [s \in Sessions |-> {}]
    /\ calls = [s \in Sessions |-> 0]

Run(s) ==
    \/ MatchFindBuy(s)
    \/ MatchFindSell(s)
    \/ MatchSelfTradeDelete(s)
    \/ MatchInsertTrade(s)
    \/ MatchUpdateBuy(s)
    \/ MatchUpdateSell(s)
    \/ PassFetchBuys(s)
    \/ PassFetchSells(s)
    \/ PassInsertTrade(s)
    \/ PassIncBuy(s)
    \/ PassIncSell(s)
    \/ PassDeleteBuy(s)
    \/ PassDeleteSell(s)

NextRace ==
    \E s \in Sessions :
        \/ /\ next_id < MaxRaceOrders
           /\ Idle(s)
           /\ \E t \in Sides, p \in PriceInputs, v \in VolumeInputs :
                 SubmitOrder(s, "m1", t, p, v)
        \/ Run(s)

SpecRace == InitRace /\ [][NextRace]_vars

\* Two sessions, logged in, each trading on a market of its own at the same
\* time: s1 on m1, s2 on m2.  Each market sees the submissions of one
\* session only, so the pass after match_orders is followed up to its
\* decision, as in Next.
MarketOf(s) == IF s = "s1" THEN "m1" ELSE "m2"

\* Charlie, whose own orders trade with one another, is on m1; Alice, whose
\* own crossing orders are resolved by removal, is on m2.
InitMarkets ==
    /\ InitRace
    /\ username["s1"] = "Charlie"
    /\ username["s2"] = "Alice"

NextMarkets ==
    \E s \in Sessions :
        \/ \E t \in Sides, p \in PriceInputs, v \in VolumeInputs :
              next_id < MaxMarketOrders /\ SubmitOrder(s, MarketOf(s), t, p, v)
        \/ MatchFindBuy(s)
        \/ MatchFindSell(s)
        \/ MatchSelfTradeDelete(s)
        \/ MatchInsertTrade(s)
        \/ MatchUpdateBuy(s)
        \/ MatchUpdateSell(s)
        \/ PassFetchBuys(s)
        \/ PassFetchSells(s)

SpecMarkets == InitMarkets /\ [][NextMarkets]_vars

\* The pass after match_orders finds nothing to trade when submissions run
\* one at a time.
PassNeverTrades == pc["s1"] \notin {"s_trade", "s_incbuy", "s_incsell",
                                    "s_delbuy", "s_delsell"}

\* ================================================================ claims
\* No buy order of market m is priced at or above a sell order of m.
NoCross(m) ==
    \/ BuyOrders(m) = {}
    \/ SellOrders(m) = {}
    \/ \A b \in BuyOrders(m), a \in SellOrders(m) : b.price < a.price

\* Session s is inside match_orders.
MatchRunning(s) ==
    pc[s] \in {"m_buy", "m_sell", "m_selfdel", "m_trade", "m_updbuy",
               "m_updsell"}

RECURSIVE LedgerVolumeUpTo(_)
LedgerVolumeUpTo(n) ==
    IF n = 0 THEN 0 ELSE trades[n].volume + LedgerVolumeUpTo(n - 1)

\* Total volume recorded in the trade ledger.
LedgerVolume == LedgerVolumeUpTo(Len(trades))

RECURSIVE TradedAgainstUpTo(_, _)
TradedAgainstUpTo(id, n) ==
    IF n = 0 THEN 0
    ELSE (IF id \in {trades[n].buy_order_id, trades[n].sell_order_id}
          THEN trades[n].volume ELSE 0) + TradedAgainstUpTo(id, n - 1)

\* Total volume the ledger reports as traded against order id.
TradedAgainst(id) == TradedAgainstUpTo(id, Len(trades))

\* Volume of the trade session s has recorded and not yet written back to
\* an order: it is at one of the labels, between insert_one and the update.
OwedBy(s, labels) ==
    IF pc[s] \in labels
    THEN Min(highest_buy[s].volume, lowest_sell[s].volume)
    ELSE 0

RECURSIVE Owed(_, _)
Owed(S, labels) ==
    IF S = {} THEN 0
    ELSE LET s == CHOOSE x \in S : TRUE
         IN  OwedBy(s, labels) + Owed(S \ {s}, labels)

\* The best bid and the best ask of market m cross and belong to one user
\* who is not exempt.
BestPairIsOwn(m) ==
    \E b \in HighestBuys(m), a \in LowestSells(m) :
        b.price >= a.price /\ b.user_id = a.user_id /\ b.user_id # "Charlie"

\* C1: no-cross invariant.  Whenever no match_orders call is running, that
\* is once match has returned, every market has no buy order, or no sell
\* order, or its best bid is priced strictly below its best ask.
C1_NoCrossAfterMatch ==
    (\A s \in Sessions : ~MatchRunning(s)) => \A m \in Markets : NoCross(m)

\* C1 witness: a call of match_orders has returned after going round twice,
\* with two trades made: it did not stop after the first pair.
C1_Witness ==
    /\ pc["s1"] = "s_buys"
    /\ iterations["s1"] = 2
    /\ Len(trades) = 2

\* C2: each trade consumes liquidity that is there: the volume traded
\* against an order never exceeds the volume it was submitted with.
C2_ExclusiveLiquidity ==
    \A o \in submitted : TradedAgainst(o.order_id) <= o.volume

\* C3: a step of match_orders that records a trade records the ids and the
\* users of the best bid and the best ask of the book, the volume
\* min(best_bid.volume, best_ask.volume) and the price of the best ask.
C3_TradeOfBestPair ==
    [][\A s \in Sessions :
          (pc[s] = "m_trade" /\ pc'[s] = "m_updbuy") =>
             \E b \in HighestBuys(selected_market[s]),
                a \in LowestSells(selected_market[s]) :
                trades' = Append(trades,
                    [market_id |-> selected_market[s],
                     buy_order_id |-> b.order_id,
                     sell_order_id |-> a.order_id,
                     buy_id |-> b.user_id,
                     sell_id |-> a.user_id,
                     price |-> a.price,
                     volume |-> IF b.volume <= a.volume
                                THEN b.volume ELSE a.volume])]_vars

\* C3 witness: a trade was just recorded for a bid priced above the ask and
\* of another volume, at the ask's price and the smaller volume.
C3_Witness ==
    /\ pc["s1"] = "m_updbuy"
    /\ highest_buy["s1"].price > lowest_sell["s1"].price
    /\ highest_buy["s1"].volume > lowest_sell["s1"].volume
    /\ trades[Len(trades)].price = lowest_sell["s1"].price
    /\ trades[Len(trades)].volume = lowest_sell["s1"].volume

\* C4: volume conservation.  The volume the write-backs have taken from the
\* buy side, and from the sell side, equals the volume in the ledger less
\* the trades whose write-back to that side is still to come; as this holds
\* before and after every write-back, each takes exactly its trade's volume.
C4_VolumeConservation ==
    /\ reduced["buy"] + Owed(Sessions, {"m_updbuy", "s_incbuy"})
          = LedgerVolume
    /\ reduced["sell"]
          + Owed(Sessions, {"m_updbuy", "m_updsell", "s_incbuy", "s_incsell"})
          = LedgerVolume

\* C4 witness: after three submissions and two trades, one of them a
\* partial fill, the session is idle and the volumes agree.
C4_Witness ==
    /\ pc["s1"] = "idle"
    /\ Len(trades) = 2
    /\ LedgerVolume = 2
    /\ \E o \in submitted : o.volume = 2
    /\ reduced["buy"] = 2
    /\ reduced["sell"] = 2

\* C5: no trade of the ledger has the same buyer and seller, unless that
\* user is "Charlie".
C5_NoSelfTrade ==
    \A i \in 1..Len(trades) :
        trades[i].buy_id # trades[i].sell_id \/ trades[i].buy_id = "Charlie"

\* C5 witness: the ledger holds a trade between a buy order and a sell order
\* of Charlie.
C5_Witness ==
    \E i \in 1..Len(trades) :
        /\ trades[i].buy_id = "Charlie"
        /\ trades[i].sell_id = "Charlie"
        /\ trades[i].buy_order_id # trades[i].sell_order_id

\* C6: self-trade resolution.  When the best bid and the best ask cross and
\* belong to the same user other than "Charlie", match_orders goes to the
\* removal; the removal takes exactly that buy order from the book, records
\* no trade, leaves the sell order resident as it was, and the loop goes on
\* from the top, where the pair it reads is again the best of the book.
C6_SelfTradeResolution ==
    /\ [](\A s \in Sessions :
             pc[s] \in {"m_selfdel", "m_trade"} =>
                /\ highest_buy[s] \in HighestBuys(selected_market[s])
                /\ lowest_sell[s] \in LowestSells(selected_market[s]))
    /\ [][\A s \in Sessions :
             /\ (pc[s] = "m_sell" /\ pc'[s] # "m_sell"
                   /\ BestPairIsOwn(selected_market[s]))
                => pc'[s] = "m_selfdel"
             /\ (pc[s] = "m_selfdel" /\ pc'[s] # "m_selfdel")
                => \E b \in HighestBuys(selected_market[s]),
                      a \in LowestSells(selected_market[s]) :
                      /\ orders' = orders \ {b}
                      /\ trades' = trades
                      /\ a \in orders'
                      /\ a \in LowestSells(selected_market[s])'
                      /\ pc'[s] = "m_buy"]_vars

\* C6 witness: after the buy order of a prevented pairing was removed, the
\* next-best bid has been read against the same sell order and crosses it.
C6_Witness ==
    /\ pc["s1"] = "m_trade"
    /\ Len(trades) = 0
    /\ \E p \in prevented["s1"] :
          /\ p[2] = lowest_sell["s1"].order_id
          /\ p[1] # highest_buy["s1"].order_id
          /\ \A o \in orders : o.order_id # p[1]

\* C7: the loop of match_orders terminates.  Every round that goes on leaves
\* the market with strictly less volume than it had when the round began, a
\* prevented pairing is never met a second time, and the rounds of a call,
\* the one under way included, never outnumber the orders resident in the
\* market when the call started.
C7_LoopTerminates ==
    /\ [](\A s \in Sessions :
             MatchRunning(s) => iterations[s] + 1 <= resident_at_start[s])
    /\ [][\A s \in Sessions :
             /\ iterations'[s] = iterations[s] + 1
                => SumVolume(OrdersOf(selected_market[s]))' < volume_at_top[s]
             /\ (pc[s] = "m_sell" /\ pc'[s] = "m_selfdel")
                => <<highest_buy[s].order_id, lowest_sell'[s].order_id>>
                      \notin prevented[s]]_vars

\* C7 witness: a call that started with three resident orders has returned
\* after two rounds that went on, a removal and a trade, and a third that
\* stopped.
C7_Witness ==
    /\ pc["s1"] = "s_buys"
    /\ resident_at_start["s1"] = 3
    /\ iterations["s1"] = 2
    /\ prevented["s1"] # {}
    /\ Len(trades) = 1

\* C8: idempotence.  A second invocation of match_orders, on the book the
\* first one left, records no trade and changes no order, at any of its
\* steps up to its return.
C8_Idempotence ==
    [][\A s \in Sessions :
          (calls[s] = 2 /\ MatchRunning(s))
             => (orders' = orders /\ trades' = trades /\ iterations'[s] = 0
                 /\ pc'[s] \in {"m_sell", "s_buys"})]_vars

\* C8 witness: the second invocation has returned; the first one had made a
\* trade and left orders on both sides of the book.
C8_Witness ==
    /\ pc["s1"] = "s_buys"
    /\ calls["s1"] = 2
    /\ Len(trades) >= 1
    /\ BuyOrders("m1") # {}
    /\ SellOrders("m1") # {}

\* C9: atomicity under persistence failure.  Once a run has ended, by
\* returning or by a database call that raised, every recorded trade has
\* both its reductions applied and no order is reduced without its trade:
\* the volume taken from each side is the volume in the ledger.
C9_AtomicUnderFailure ==
    (\A s \in Sessions : Idle(s)) =>
        /\ reduced["buy"] = LedgerVolume
        /\ reduced["sell"] = LedgerVolume

\* C10: rejected submissions mutate nothing.  A submission that is not
\* logged in, or has price -1 or 101, or volume 0 or 11, is refused; every
\* order that reached the book came from a logged-in user with a price and a
\* volume within the limits; and the run of a refused submission changes
\* neither the book nor the ledger and enters no matching.
C10_RejectedMutateNothing ==
    /\ [](\A s \in Sessions, i \in SubmitInputs :
             (~logged_in[s] \/ i[1] \in {-1, 101} \/ i[2] \in {0, 11})
                => i \in RefusedInputs(s))
    /\ [](\A o \in submitted :
             /\ o.user_id \in Users
             /\ o.price \notin {-1, 101}
             /\ o.volume \notin {0, 11})
    /\ [][\A s \in Sessions :
             (pc'[s] = "rejected" /\ pc[s] # "rejected")
                => (orders' = orders /\ trades' = trades /\ Idle(s)
                    /\ ~MatchRunning(s)')]_vars

\* C10 witness: a logged-in session's submission was refused while the book
\* and the ledger were not empty.
C10_Witness ==
    /\ pc["s1"] = "rejected"
    /\ logged_in["s1"]
    /\ orders # {}
    /\ Len(trades) >= 1

\* C11: every submission of a logged-in user with a price in 0..100 and a
\* volume in 1..10 is accepted.
C11_ValidSubmissionAccepted ==
    \A s \in Sessions, i \in SubmitInputs :
        (logged_in[s] /\ 0 <= i[1] /\ i[1] <= 100 /\ 1 <= i[2] /\ i[2] <= 10)
           => i \notin RefusedInputs(s)

\* C12: every order resident in the book has a volume above 0 and a price
\* in 0..100.
C12_ResidentOrdersValid ==
    \A o \in orders : o.volume > 0 /\ 0 <= o.price /\ o.price <= 100

\* A state at rest, every run over, in which an order is still resident
\* with no volume left.
C12_SpentOrderStays ==
    /\ \A s \in Sessions : Idle(s)
    /\ \E o \in orders : o.volume <= 0

\* Order p has priority over order o of the same market and side: a better
\* price, or the same price and an earlier timestamp.
HasPriorityOver(p, o) ==
    /\ p.market_id = o.market_id
    /\ p.type = o.type
    /\ \/ (o.type = "buy" /\ p.price > o.price)
       \/ (o.type = "sell" /\ p.price < o.price)
       \/ (p.price = o.price /\ p.timestamp < o.timestamp)

\* Order o is resident and no resident order has priority over it.
IsBest(o) == o \in orders /\ \A p \in orders : ~HasPriorityOver(p, o)

\* C13: price-time priority.  A step that records a trade records it for
\* the buy order and the sell order that no resident order has priority
\* over, and a step that reduces or removes an order does so to an order
\* that no resident order has priority over.
C13_PriceTimePriority ==
    [][/\ Len(trades') > Len(trades) =>
             \E b \in orders, a \in orders :
                /\ b.type = "buy" /\ IsBest(b)
                /\ a.type = "sell" /\ IsBest(a)
                /\ a.market_id = b.market_id
                /\ trades'[Len(trades')].buy_order_id = b.order_id
                /\ trades'[Len(trades')].sell_order_id = a.order_id
       /\ \A o \in orders : o \notin orders' => IsBest(o)]_vars

\* C13 witness: a buy order has consumed two resting sell orders, the one
\* priced lower first, and the book is empty.
C13_Witness ==
    /\ Len(trades) = 2
    /\ trades[1].buy_order_id = trades[2].buy_order_id
    /\ trades[1].sell_order_id < trades[2].sell_order_id
    /\ trades[1].price < trades[2].price
    /\ orders = {}

\* C14: the ledger is append-only.  Every step leaves the trades recorded so
\* far in place and unchanged: the ledger before the step is a prefix of
\* the ledger after it.
C14_LedgerAppendOnly ==
    [][/\ Len(trades') >= Len(trades)
       /\ SubSeq(trades', 1, Len(trades)) = trades]_vars

\* C14 witness: the ledger holds two trades, the second recorded by the
\* single pass of one session after a trade of the other session.
C14_Witness ==
    /\ Len(trades) = 2
    /\ \E s \in Sessions : pc[s] = "s_incbuy"

\* The book after order o gave up volume tv: o stays, the same but for its
\* volume, when it had more than tv, and is gone when it had exactly tv.
AfterFill(book, o, tv) ==
    IF o.volume > tv
    THEN (book \ {o}) \cup {[o EXCEPT !.volume = o.volume - tv]}
    ELSE book \ {o}

\* C15: order lifecycle on a fill.  The write-back of a trade to its buy
\* order, and then to its sell order, leaves the order in the book with
\* its volume decreased by the trade's volume when it had more, removes it
\* when it had exactly that much, and changes no other order.
C15_FillLifecycle ==
    [][\A s \in Sessions :
          LET t == trades[Len(trades)] IN
          /\ (pc[s] = "m_updbuy" /\ pc'[s] # "m_updbuy") =>
                \E b \in orders :
                   /\ b.order_id = t.buy_order_id
                   /\ b.volume >= t.volume
                   /\ orders' = AfterFill(orders, b, t.volume)
          /\ (pc[s] = "m_updsell" /\ pc'[s] # "m_updsell") =>
                \E a \in orders :
                   /\ a.order_id = t.sell_order_id
                   /\ a.volume >= t.volume
                   /\ orders' = AfterFill(orders, a, t.volume)]_vars

\* C15 witness: a trade of volume 1 is written back; the buy order, which
\* was submitted with volume 2, stays with volume 1 and all else as
\* submitted, the sell order is gone, and a third order rests untouched.
C15_Witness ==
    /\ pc["s1"] = "m_buy"
    /\ Len(trades) = 1
    /\ trades[1].volume = 1
    /\ \E p \in submitted :
          /\ p.order_id = trades[1].buy_order_id
          /\ p.volume = 2
          /\ [p EXCEPT !.volume = 1] \in orders
    /\ \A o \in orders : o.order_id # trades[1].sell_order_id
    /\ \E o \in orders \cap submitted : o.order_id # trades[1].buy_order_id

\* C16: a step that records a trade records it for a buy order and a sell
\* order of the trade's market that are resident in the book at that step.
C16_TradeOfResidentOrders ==
    [][Len(trades') > Len(trades) =>
          LET t == trades'[Len(trades')] IN
          /\ \E b \in orders :
                /\ b.order_id = t.buy_order_id
                /\ b.type = "buy"
                /\ b.market_id = t.market_id
          /\ \E a \in orders :
                /\ a.order_id = t.sell_order_id
                /\ a.type = "sell"
                /\ a.market_id = t.market_id]_vars

\* Order id is resident in the book.
Resident(id) == \E o \in orders : o.order_id = id

\* The next database call of session s matches against, or writes to, an
\* order that is no longer resident, or takes an order's volume below zero.
BreaksOrderContract(s) ==
    LET b == highest_buy[s].order_id
        a == lowest_sell[s].order_id
        tv == Min(highest_buy[s].volume, lowest_sell[s].volume)
    IN  \/ pc[s] \in {"m_trade", "s_trade"} /\ (~Resident(b) \/ ~Resident(a))
        \/ pc[s] \in {"m_selfdel", "m_updbuy", "s_incbuy", "s_delbuy"}
              /\ ~Resident(b)
        \/ pc[s] \in {"m_updsell", "s_incsell", "s_delsell"} /\ ~Resident(a)
        \/ pc[s] = "s_incbuy" /\ Resident(b) /\ VolumeOf(orders, b) - tv < 0
        \/ pc[s] = "s_incsell" /\ Resident(a) /\ VolumeOf(orders, a) - tv < 0

\* C17: a database call that matches against or writes to an order already
\* closed, or takes a volume below zero, aborts the run: the run ends there
\* and neither the book nor the ledger changes.
C17_ContractBreachAborts ==
    [][\A s \in Sessions :
          (pc'[s] # pc[s] /\ BreaksOrderContract(s))
             => (pc'[s] = "idle" /\ orders' = orders /\ trades' = trades)]_vars

\* C18: an order that has been removed from the book never becomes resident
\* again: no step takes an order_id handed out earlier from not resident to
\* resident.
C18_NeverReinserted ==
    [][\A id \in 1..next_id : ~Resident(id) => ~Resident(id)']_vars

\* C18 witness: a session is about to write to an order that another
\* session has already removed from the book.
C18_Witness ==
    \E s \in Sessions :
        /\ pc[s] \in {"m_updbuy", "s_incbuy"}
        /\ highest_buy[s].order_id \in 1..next_id
        /\ ~Resident(highest_buy[s].order_id)

\* The trades of market m, in ledger order.
TradesOf(m) == SelectSeq(trades, LAMBDA t : t.market_id = m)

\* The market session s is working on when it takes a step: the one it
\* selects with the submission, then the one of its running script.
ActingOn(s) == IF pc[s] = "idle" THEN selected_market'[s] ELSE selected_market[s]

\* C19: market independence.  The documents a run has read are of its own
\* market; a step of a run on market A leaves the orders and the trades of
\* every other market unchanged; and a trade carries the market of both
\* its orders, a buy order and a sell order of that market.
C19_MarketIndependence ==
    /\ [](\A s \in Sessions :
             /\ highest_buy[s] # NoOrder
                => highest_buy[s].market_id = selected_market[s]
             /\ lowest_sell[s] # NoOrder
                => lowest_sell[s].market_id = selected_market[s])
    /\ [](\A i \in 1..Len(trades) :
             \E b \in submitted, a \in submitted :
                /\ b.order_id = trades[i].buy_order_id
                /\ a.order_id = trades[i].sell_order_id
                /\ b.type = "buy" /\ a.type = "sell"
                /\ b.market_id = trades[i].market_id
                /\ a.market_id = trades[i].market_id)
    /\ [][\A s \in Sessions :
             pc'[s] # pc[s] =>
                \A m \in Markets \ {ActingOn(s)} :
                   /\ OrdersOf(m)' = OrdersOf(m)
                   /\ TradesOf(m)' = TradesOf(m)]_vars

\* C19 witness: a trade is being written back on m1 while s2 is inside
\* match_orders on m2, where a sell order rests that crosses the buy order
\* of the trade.
C19_Witness ==
    /\ pc["s1"] = "m_updsell"
    /\ MatchRunning("s2")
    /\ Len(trades) = 1
    /\ trades[1].market_id = "m1"
    /\ \E o \in OrdersOf("m2") :
          o.type = "sell" /\ o.price <= highest_buy["s1"].price

\* C20: match_orders is deterministic.  Its only inputs are the two
\* find_one reads of each round; in every reachable book each of them has
\* at most one document it can return, so two runs from the same book read
\* the same documents, round after round, and write the same trades and
\* the same book.
C20_MatchDeterministic ==
    \A m \in Markets :
        /\ Cardinality(HighestBuys(m)) <= 1
        /\ Cardinality(LowestSells(m)) <= 1

\* C20 witness: match_orders has read its buy order from a book with two
\* buy orders at the best price, and a sell order is resident.
C20_Witness ==
    /\ pc["s1"] = "m_sell"
    /\ SellOrders("m1") # {}
    /\ \E b \in BuyOrders("m1") :
          /\ b # highest_buy["s1"]
          /\ b.price = highest_buy["s1"].price

\* The order document inserted with order_id id.
SubmittedAs(id) == CHOOSE o \in submitted : o.order_id = id

\* C21: every recorded trade executes at a price within the limits of the
\* two orders it references: the sell order's price is at most the trade
\* price, and the trade price is at most the buy order's price, whichever
\* of match_orders and the pass after it recorded the trade.
C21_PriceWithinLimits ==
    \A i \in 1..Len(trades) :
        \E b, a \in submitted :
            /\ b.order_id = trades[i].buy_order_id
            /\ a.order_id = trades[i].sell_order_id
            /\ b.type = "buy"
            /\ a.type = "sell"
            /\ a.price <= trades[i].price
            /\ trades[i].price <= b.price

\* C21 witness: the pass after match_orders has recorded a trade at a price
\* strictly below the limit of its buy order.
C21_Witness ==
    \E s \in Sessions :
        /\ pc[s] = "s_incbuy"
        /\ Len(trades) = 1
        /\ trades[1].price < SubmittedAs(trades[1].buy_order_id).price

\* Session s is in the pass the handler runs after match_orders returned.
PassRunning(s) == pc[s] \in {"s_buys", "s_sells"}

\* C22: when submissions run one at a time, the pass after match_orders
\* never finds a cross: the book it reads has none, the buy order it read
\* is priced below every sell order, it never reaches its trade, and from
\* the return of match_orders to the end of the run neither the book nor
\* the ledger changes.
C22_PassFindsNoCross ==
    /\ [](PassRunning("s1") => NoCross(selected_market["s1"]))
    /\ []((pc["s1"] = "s_sells" /\ highest_buy["s1"] # NoOrder) =>
             \A a \in SellOrders(selected_market["s1"]) :
                 ~Crosses(highest_buy["s1"], a))
    /\ []PassNeverTrades
    /\ [][PassRunning("s1") =>
             /\ orders' = orders
             /\ trades' = trades
             /\ pc'["s1"] \in {"s_sells", "idle"}]_vars

\* C22 witness: match_orders has traded and returned, both sides of the
\* book are still resident, and the pass has read the best buy order.
C22_Witness ==
    /\ pc["s1"] = "s_sells"
    /\ Len(trades) = 1
    /\ highest_buy["s1"] \in BuyOrders("m1")
    /\ SellOrders("m1") # {}

====
